---------------------------- MODULE Spec2Model ----------------------------
(***************************************************************************)
(* A model of the mystem crate: the MyStem session that owns one external  *)
(* worker process (src/src/lib.rs), the tag-string decoder                 *)
(* MyStem::detect_grammems with the two lookup tables of                   *)
(* src/src/grammems.rs, and the text clean-up done by MyStem::stemming.    *)
(*                                                                         *)
(* Strings are sequences of one-character strings, so that splitting,      *)
(* trimming and character removal are computed as the code computes them.  *)
(* A Rust Result is a record [tag, val] with tag "Ok" or "Err"; a panic    *)
(* (a failed unwrap, an index out of bounds) is the tag "Panic".           *)
(***************************************************************************)
EXTENDS Integers, Sequences, FiniteSets, TLC

VARIABLES
    pc,          \* position of the caller inside MyStem::stemming
    process,     \* MyStem.process: the worker handle the session owns
    alive,       \* alive[w]: worker w has not exited
    spawned,     \* number of workers created so far
    stdin,       \* stdin[w]: bytes written to w's input that w has not consumed
    stdout,      \* stdout[w]: lines w has emitted that have not been read
    text,        \* argument of the running stemming call
    clean_text,  \* local clean_text of the running stemming call
    result,      \* what the last stemming call returned
    calls,       \* number of stemming calls begun
    log_warn,    \* the logger the application installed lets Level::Warn through
    hist,        \* bookkeeping of the running call (what it polled, wrote, read)
    gr,          \* argument of detect_grammems
    grammem      \* what detect_grammems returned

vars == << pc, process, alive, spawned, stdin, stdout, text, clean_text,
           result, calls, log_warn, hist, gr, grammem >>

sessionVars == << process, alive, spawned, stdin, stdout, result, calls, log_warn, hist >>
textVars == << text, clean_text >>
decoderVars == << gr, grammem >>

(***************************************************************************)
(* Bounds of the model.                                                    *)
(***************************************************************************)
MaxTagLen == 4
MaxTextLen == 4
MaxCalls == 3
MaxSpawns == 2
MaxCallTextLen == 3

(***************************************************************************)
(* Results.                                                                *)
(***************************************************************************)
Ok(v) == [tag |-> "Ok", val |-> v]
Err(e) == [tag |-> "Err", val |-> e]
Panic(m) == [tag |-> "Panic", val |-> m]
None == [tag |-> "None", val |-> "none"]

SeqsUpTo(S, n) == UNION { [1..k -> S] : k \in 0..n }

(***************************************************************************)
(* The tables of grammems.rs: impl FromStr for PartOfSpeech and for Fact.  *)
(***************************************************************************)
Fact(category, variant) == [category |-> category, variant |-> variant]

PartOfSpeechTable ==
    { <<<<"A">>, "Adjective">>,
      <<<<"A", "D", "V">>, "Adverb">>,
      <<<<"A", "D", "V", "P", "R", "O">>, "AdverbPronominal">>,
      <<<<"A", "N", "U", "M">>, "AdjectiveNumeral">>,
      <<<<"A", "P", "R", "O">>, "AdjectivePronoun">>,
      <<<<"C", "O", "M">>, "Composite">>,
      <<<<"C", "O", "N", "J">>, "Conjunction">>,
      <<<<"I", "N", "T", "J">>, "Interjection">>,
      <<<<"N", "U", "M">>, "Numeral">>,
      <<<<"P", "A", "R", "T">>, "Particle">>,
      <<<<"P", "R">>, "Preposition">>,
      <<<<"S">>, "Noun">>,
      <<<<"S", "P", "R", "O">>, "AdjectiveNoun">>,
      <<<<"V">>, "Verb">> }

FactTable ==
    { <<<<"n", "o", "m">>, Fact("Case", "Nominative")>>,
      <<<<"g", "e", "n">>, Fact("Case", "Genitive")>>,
      <<<<"d", "a", "t">>, Fact("Case", "Dative")>>,
      <<<<"a", "c", "c">>, Fact("Case", "Accusative")>>,
      <<<<"i", "n", "s">>, Fact("Case", "Instrumental")>>,
      <<<<"a", "b", "l">>, Fact("Case", "Prepositional")>>,
      <<<<"p", "a", "r", "t">>, Fact("Case", "Partitive")>>,
      <<<<"l", "o", "c">>, Fact("Case", "Locative")>>,
      <<<<"v", "o", "c">>, Fact("Case", "Vocative")>>,
      <<<<"p", "r", "a", "e", "s">>, Fact("Tense", "Present")>>,
      <<<<"i", "n", "p", "r", "a", "e", "s">>, Fact("Tense", "Inpresent")>>,
      <<<<"p", "r", "a", "e", "t">>, Fact("Tense", "Past")>>,
      <<<<"s", "g">>, Fact("Plurality", "Singular")>>,
      <<<<"p", "l">>, Fact("Plurality", "Plural")>>,
      <<<<"g", "e", "r">>, Fact("Mood", "Gerunds")>>,
      <<<<"i", "n", "f">>, Fact("Mood", "Infinitive")>>,
      <<<<"p", "a", "r", "t", "c", "p">>, Fact("Mood", "Participle")>>,
      <<<<"i", "n", "d", "i", "c">>, Fact("Mood", "Indicative")>>,
      <<<<"i", "m", "p", "e", "r">>, Fact("Mood", "Imperative")>>,
      <<<<"b", "r", "e", "v">>, Fact("Adjective", "Short")>>,
      <<<<"p", "l", "e", "n">>, Fact("Adjective", "Long")>>,
      <<<<"p", "o", "s", "s">>, Fact("Adjective", "Possessive")>>,
      <<<<"s", "u", "p", "r">>, Fact("ComparativeDegree", "Superlative")>>,
      <<<<"c", "o", "m", "p">>, Fact("ComparativeDegree", "Comparative")>>,
      <<<<"1", "p">>, Fact("Person", "First")>>,
      <<<<"2", "p">>, Fact("Person", "Second")>>,
      <<<<"3", "p">>, Fact("Person", "Third")>>,
      <<<<"m">>, Fact("Gender", "Masculine")>>,
      <<<<"f">>, Fact("Gender", "Feminine")>>,
      <<<<"n">>, Fact("Gender", "Neuter")>>,
      <<<<"p", "f">>, Fact("PerfectiveAspect", "Perfective")>>,
      <<<<"i", "p", "f">>, Fact("PerfectiveAspect", "Imperfective")>>,
      <<<<"a", "c", "t">>, Fact("Voice", "Active")>>,
      <<<<"p", "a", "s", "s">>, Fact("Voice", "Passive")>>,
      <<<<"a", "n", "i", "m">>, Fact("Animacy", "Animate")>>,
      <<<<"i", "n", "a", "n">>, Fact("Animacy", "Inanimate")>>,
      <<<<"t", "r", "a", "n">>, Fact("Transitivity", "Transitive")>>,
      <<<<"i", "n", "t", "r">>, Fact("Transitivity", "Intransitive")>>,
      <<<<"p", "a", "r", "e", "n", "t", "h">>, Fact("Other", "Parenthesis")>>,
      <<<<"g", "e", "o">>, Fact("Other", "Geo")>>,
      <<<<"a", "w", "k", "w">>, Fact("Other", "Awkward")>>,
      <<<<"p", "e", "r", "s", "n">>, Fact("Other", "ProperNoun")>>,
      <<<<"d", "i", "s", "t">>, Fact("Other", "Distorted")>>,
      <<<<"m", "f">>, Fact("Other", "CommonForm")>>,
      <<<<"o", "b", "s", "c">>, Fact("Other", "Obscene")>>,
      <<<<"p", "a", "t", "r", "n">>, Fact("Other", "Patronymic")>>,
      <<<<"p", "r", "a", "e", "d">>, Fact("Other", "Predicative")>>,
      <<<<"i", "n", "f", "o", "r", "m">>, Fact("Other", "Informal")>>,
      <<<<"r", "a", "r", "e">>, Fact("Other", "Rare")>>,
      <<<<"a", "b", "b", "r">>, Fact("Other", "Abbreviation")>>,
      <<<<"o", "b", "s", "o", "l">>, Fact("Other", "Obsolete")>>,
      <<<<"f", "a", "m", "n">>, Fact("Other", "FamilyName")>> }

PartOfSpeech_from_str(input) ==
    IF \E p \in PartOfSpeechTable : p[1] = input
    THEN Ok((CHOOSE p \in PartOfSpeechTable : p[1] = input)[2])
    ELSE Err("PartOfSpeechError")

Fact_from_str(input) ==
    IF \E p \in FactTable : p[1] = input
    THEN Ok((CHOOSE p \in FactTable : p[1] = input)[2])
    ELSE Err("GrammemError")

(***************************************************************************)
(* MyStem::detect_grammems.                                                *)
(***************************************************************************)
\* a split that knows the comma only
IsSeparatorCommaOnly(c) == c = ","

IsSeparator(c) == c = "=" \/ c = ","

RECURSIVE SplitRec(_, _, _)
SplitRec(s, cur, out) ==
    IF s = << >> THEN Append(out, cur)
    ELSE IF IsSeparator(Head(s))
         THEN SplitRec(Tail(s), << >>, Append(out, cur))
         ELSE SplitRec(Tail(s), Append(cur, Head(s)), out)

\* gr.split(|s| s == '=' || s == ','): every segment, the empty ones included
Split(s) == SplitRec(s, << >>, << >>)

\* res.retain(|x| x != "")
Retain(res) == SelectSeq(res, LAMBDA x : x # << >>)

\* Vec::split_off(at): the elements from index at on (0-based)
split_off(v, at) == SubSeq(v, at + 1, Len(v))

\* facts_raw taken from the whole of res, the part of speech included
FactsRawWhole(res) == res

\* facts_raw: res.split_off(1)
FactsRaw(res) == split_off(res, 1)

detect_grammems(s) ==
    LET res == Retain(Split(s)) IN
    IF Len(res) = 0
    THEN Panic("index out of bounds")                 \* res[0]
    ELSE LET pos == PartOfSpeech_from_str(res[1])
             rest == split_off(res, 1)
             parsed == [i \in 1..Len(rest) |-> Fact_from_str(rest[i])]
         IN  IF pos.tag = "Err"
             THEN pos                                  \* the ? operator
             ELSE IF \E i \in 1..Len(rest) : parsed[i].tag = "Err"
                  THEN Panic("unwrap on Err")          \* Fact::from_str(f).unwrap()
                  ELSE Ok([part_of_speech |-> pos.val,
                           facts |-> [i \in 1..Len(rest) |-> parsed[i].val],
                           facts_raw |-> FactsRaw(res)])

(***************************************************************************)
(* The text clean-up of MyStem::stemming.                                  *)
(***************************************************************************)
Letters == { "a", "B" }
Whitespace == { " ", "\n", "\t" }
TextChars == Letters \cup { " ", "\n", "\t", "1", "-" }

\* char::is_alphabetic
is_alphabetic(c) == c \in Letters

\* char::is_whitespace, which str::trim uses
is_whitespace(c) == c \in Whitespace

RECURSIVE trim_start(_)
trim_start(s) ==
    IF s # << >> /\ is_whitespace(Head(s)) THEN trim_start(Tail(s)) ELSE s

RECURSIVE trim_end(_)
trim_end(s) ==
    IF s # << >> /\ is_whitespace(s[Len(s)])
    THEN trim_end(SubSeq(s, 1, Len(s) - 1))
    ELSE s

\* str::trim
trim(s) == trim_end(trim_start(s))

\* clean_text.replace(c, ""): every occurrence of c removed
replace(s, c) == SelectSeq(s, LAMBDA x : x # c)

\* a condition that forgets the exemption of the plain space
IsStrippedSpacesToo(c) == ~is_alphabetic(c)

\* the condition of the if inside the loop
IsStripped(c) == ~is_alphabetic(c) /\ c # " "

\* for c in clean_text.clone().chars() { if ... { clean_text = clean_text.replace(c, "") } }
RECURSIVE CleanLoop(_, _)
CleanLoop(chars, acc) ==
    IF chars = << >> THEN acc
    ELSE CleanLoop(Tail(chars),
                   IF IsStripped(Head(chars)) THEN replace(acc, Head(chars)) ELSE acc)

\* a clean-up that trims and strips nothing
CleanTextTrimOnly(t) == trim(t)

CleanText(t) == CleanLoop(trim(t), trim(t))

(***************************************************************************)
(* The response line and its decoding (the second half of stemming).       *)
(* A line is either text that is not JSON (the empty line included) or a   *)
(* JSON value.                                                             *)
(***************************************************************************)
JNull == [kind |-> "null"]
JStr(s) == [kind |-> "string", s |-> s]
JNum(lit) == [kind |-> "number", lit |-> lit]
JArr(items) == [kind |-> "array", items |-> items]
JObj(fields) == [kind |-> "object", fields |-> fields]

LText(s) == [kind |-> "text", s |-> s]
LJson(v) == [kind |-> "json", v |-> v]

\* what read_line leaves in contents at end of file
EofLine == LText(<< >>)

\* serde_json::from_str::<Vec<Value>>(contents)
from_str(line) ==
    IF line.kind = "json" /\ line.v.kind = "array"
    THEN Ok(line.v.items)
    ELSE Err("serde_json::Error")

\* Value's Index<&str>: Null unless an object that has the key
Index(v, key) ==
    IF v.kind = "object" /\ key \in DOMAIN v.fields THEN v.fields[key] ELSE JNull

\* Value::to_string for the scalars the fields hold
to_string(v) ==
    CASE v.kind = "string" -> << "\"" >> \o v.s \o << "\"" >>
      [] v.kind = "number" -> v.lit
      [] OTHER -> << "n", "u", "l", "l" >>

\* .to_string().replace("\"", "")
Unquoted(v) == replace(to_string(v), "\"")

\* z["wt"].as_f64().unwrap_or(1.0)
Weight(z) ==
    LET wt == Index(z, "wt") IN
    IF wt.kind = "number" THEN wt.lit ELSE << "1", ".", "0" >>

\* the closure |z| Lexeme { .. }; detect_grammems(..).unwrap() panics on Err
LexemeOf(z) ==
    LET g == detect_grammems(Unquoted(Index(z, "gr"))) IN
    IF g.tag = "Ok"
    THEN Ok([lex |-> Unquoted(Index(z, "lex")), grammem |-> g.val, weight |-> Weight(z)])
    ELSE Panic("unwrap on detect_grammems")

\* one iteration of for i in v: i["analysis"].as_array().unwrap() panics on None
StemmingOf(i) ==
    LET analysis == Index(i, "analysis") IN
    IF analysis.kind # "array"
    THEN Panic("unwrap on None")
    ELSE LET lex == [k \in 1..Len(analysis.items) |-> LexemeOf(analysis.items[k])] IN
         IF \E k \in 1..Len(analysis.items) : lex[k].tag # "Ok"
         THEN Panic("unwrap on detect_grammems")
         ELSE Ok([text |-> Unquoted(Index(i, "text")),
                  lex |-> [k \in 1..Len(analysis.items) |-> lex[k].val]])

\* lib.rs 128-157: what stemming returns for the line it read
DecodeLine(contents) ==
    LET v == from_str(contents) IN
    IF v.tag = "Err"
    THEN Ok(<< >>)
    ELSE LET st == [k \in 1..Len(v.val) |-> StemmingOf(v.val[k])] IN
         IF \E k \in 1..Len(v.val) : st[k].tag # "Ok"
         THEN Panic("unwrap")
         ELSE Ok([k \in 1..Len(v.val) |-> st[k].val])

(***************************************************************************)
(* Response lines a worker may emit.                                       *)
(***************************************************************************)
Cand(lex, g, wt) == JObj([lex |-> JStr(lex), gr |-> JStr(g), wt |-> JNum(wt)])
CandNoWt(lex, g) == JObj([lex |-> JStr(lex), gr |-> JStr(g)])
CandNoGr(lex) == JObj([lex |-> JStr(lex)])
Token(t, cands) == JObj([text |-> JStr(t), analysis |-> JArr(cands)])

WellFormedLines ==
    { LJson(JArr(<< >>)),
      LJson(JArr(<< Token(<<"a">>, << >>) >>)),
      LJson(JArr(<< Token(<<"a">>, << Cand(<<"a">>, <<"S", ",", "m", "=", "p", "l">>, <<"0", ".", "5">>),
                                       CandNoWt(<<"a">>, <<"V">>) >>) >>)) }

UnparsableLines ==
    { LText(<< >>),
      LText(<<"?">>),
      LJson(JObj([error |-> JStr(<<"x">>)])) }

MisshapenLines ==
    { LJson(JArr(<< JNum(<<"1">>) >>)),
      LJson(JArr(<< JObj([text |-> JStr(<<"a">>)]) >>)) }

UnknownCodeLines ==
    { LJson(JArr(<< Token(<<"a">>, << CandNoWt(<<"a">>, <<"Z">>) >>) >>)),
      LJson(JArr(<< Token(<<"a">>, << CandNoWt(<<"a">>, <<"S", ",", "Z">>) >>) >>)),
      LJson(JArr(<< Token(<<"a">>, << CandNoGr(<<"a">>) >>) >>)),
      LJson(JArr(<< Token(<<"a">>, << CandNoWt(<<"a">>, << >>) >>) >>)) }

ResponseLines == WellFormedLines \cup UnparsableLines \cup MisshapenLines \cup UnknownCodeLines

(***************************************************************************)
(* The session: MyStem::new, MyStem::stemming, MyStem::terminate, and the  *)
(* worker process at the other end of the two pipes.                       *)
(***************************************************************************)
Workers == 1..(MaxSpawns + 1)
CallChars == { "a", "\n" }
CallTexts == SeqsUpTo(CallChars, MaxCallTextLen)

\* bookkeeping of one call, as it stands when the call begins
NoCall ==
    [deadAtStart |-> FALSE, spawnFailed |-> FALSE, oldProcess |-> 0,
     spawnedAtStart |-> 0, written |-> << >>, wroteTo |-> {}, delivered |-> TRUE,
     readFrom |-> {}, gotLine |-> FALSE, lineCall |-> 0, contents |-> LText(<< >>)]

\* self.process = MyStem::open_process()?: the handle the session owns afterwards
Restarted(old, fresh) == fresh

\* the bytes one write call hands to the pipe, each marked with the call that wrote it
Bytes(s, k) == [i \in 1..Len(s) |-> [ch |-> s[i], call |-> k]]

\* "\n".as_bytes()
Newline == << "\n" >>

\* File::write on the worker's stdin; the Result is dropped (unused_must_use), so
\* a write to a worker that has exited (EPIPE) changes nothing
PipeWrite(w, s, k) ==
    IF alive[w] THEN [stdin EXCEPT ![w] = @ \o Bytes(s, k)] ELSE stdin

HasLine(bytes) == \E i \in 1..Len(bytes) : bytes[i].ch = "\n"
FirstNewline(bytes) ==
    CHOOSE i \in 1..Len(bytes) : bytes[i].ch = "\n" /\ \A j \in 1..(i - 1) : bytes[j].ch # "\n"

\* what BufReader::read_line returns: the first line at hand, or nothing at end of file
ReadLine(w) == IF stdout[w] # << >> THEN Head(stdout[w]) ELSE [call |-> 0, line |-> EofLine]

\* the state MyStem::new leaves: one running worker, nothing written or read
SessionInit ==
    /\ process = 1
    /\ spawned = 1
    /\ alive = [w \in Workers |-> w = 1]
    /\ stdin = [w \in Workers |-> << >>]
    /\ stdout = [w \in Workers |-> << >>]
    /\ result = None
    /\ calls = 0
    /\ hist = NoCall

\* lib.rs 102-116: poll, restart if the worker has exited, clean the text.
\* poll() records the exit in the handle, after which Popen::pid() is None: when
\* the logger lets Level::Warn through, warn! evaluates pid().unwrap() and panics;
\* when it does not, warn! evaluates none of its arguments.
Stemming(t) ==
    /\ pc = "idle"
    /\ calls < MaxCalls
    /\ calls' = calls + 1
    /\ text' = t
    /\ UNCHANGED << stdin, stdout, log_warn, decoderVars >>
    /\ \/ /\ alive[process]                        \* poll() is None
          /\ pc' = "write_text"
          /\ clean_text' = CleanText(t)
          /\ hist' = [NoCall EXCEPT !.oldProcess = process, !.spawnedAtStart = spawned]
          /\ UNCHANGED << process, alive, spawned, result >>
       \/ /\ ~alive[process]                       \* poll() is Some, warn! panics
          /\ log_warn
          /\ pc' = "aborted"
          /\ result' = Panic("unwrap on None")
          /\ hist' = [NoCall EXCEPT !.deadAtStart = TRUE, !.oldProcess = process,
                                    !.spawnedAtStart = spawned]
          /\ UNCHANGED << process, alive, spawned, clean_text >>
       \/ /\ ~alive[process]                       \* poll() is Some, open_process is Ok
          /\ ~log_warn
          /\ spawned < MaxSpawns + 1
          /\ process' = Restarted(process, spawned + 1)
          /\ spawned' = spawned + 1
          /\ alive' = [alive EXCEPT ![spawned + 1] = TRUE]
          /\ pc' = "write_text"
          /\ clean_text' = CleanText(t)
          /\ hist' = [NoCall EXCEPT !.deadAtStart = TRUE, !.oldProcess = process,
                                    !.spawnedAtStart = spawned]
          /\ UNCHANGED result
       \/ /\ ~alive[process]                       \* poll() is Some, open_process is Err
          /\ ~log_warn
          /\ result' = Err("PopenError")
          /\ pc' = "idle"
          /\ hist' = [NoCall EXCEPT !.deadAtStart = TRUE, !.spawnFailed = TRUE,
                                    !.oldProcess = process, !.spawnedAtStart = spawned]
          /\ UNCHANGED << process, alive, spawned, clean_text >>

\* lib.rs 117-121: write(clean_text.as_bytes())
WriteText ==
    /\ pc = "write_text"
    /\ stdin' = PipeWrite(process, clean_text, calls)
    /\ hist' = [hist EXCEPT !.written = @ \o clean_text,
                            !.wroteTo = @ \cup {process},
                            !.delivered = @ /\ alive[process]]
    /\ pc' = "write_newline"
    /\ UNCHANGED << process, alive, spawned, stdout, result, calls, log_warn,
                    textVars, decoderVars >>

\* lib.rs 122: write("\n".as_bytes())
WriteNewline ==
    /\ pc = "write_newline"
    /\ stdin' = PipeWrite(process, Newline, calls)
    /\ hist' = [hist EXCEPT !.written = @ \o Newline,
                            !.wroteTo = @ \cup {process},
                            !.delivered = @ /\ alive[process]]
    /\ pc' = "read"
    /\ UNCHANGED << process, alive, spawned, stdout, result, calls, log_warn,
                    textVars, decoderVars >>

\* lib.rs 123-157: read one line (blocking until a line or end of file), drop the
\* BufReader with whatever else it had buffered, decode the line
ReadAndDecode ==
    /\ pc = "read"
    /\ stdout[process] # << >> \/ ~alive[process]
    /\ LET got == ReadLine(process)
           res == DecodeLine(got.line)
       IN  /\ stdout' = [stdout EXCEPT ![process] = << >>]
           /\ hist' = [hist EXCEPT !.readFrom = {process},
                                   !.gotLine = (stdout[process] # << >>),
                                   !.lineCall = got.call,
                                   !.contents = got.line]
           /\ result' = res
           /\ pc' = IF res.tag = "Panic" THEN "aborted" ELSE "idle"
    /\ UNCHANGED << process, alive, spawned, stdin, calls, log_warn, textVars, decoderVars >>

\* lib.rs 64-66: terminate() signals the worker, which exits
Terminate ==
    /\ pc = "idle"
    /\ alive[process]
    /\ alive' = [alive EXCEPT ![process] = FALSE]
    /\ stdin' = [stdin EXCEPT ![process] = << >>]
    /\ UNCHANGED << pc, process, spawned, stdout, result, calls, log_warn, hist,
                    textVars, decoderVars >>

\* the worker consumes one request line and emits one response line
WorkerAnswer(w, r) ==
    /\ alive[w]
    /\ HasLine(stdin[w])
    /\ LET n == FirstNewline(stdin[w]) IN
       /\ stdin' = [stdin EXCEPT ![w] = SubSeq(@, n + 1, Len(@))]
       /\ stdout' = [stdout EXCEPT ![w] = Append(@, [call |-> stdin[w][n].call, line |-> r])]
    /\ UNCHANGED << pc, process, alive, spawned, result, calls, log_warn, hist,
                    textVars, decoderVars >>

\* the worker exits on its own (crash, kill); its unread input is lost
WorkerExit(w) ==
    /\ alive[w]
    /\ alive' = [alive EXCEPT ![w] = FALSE]
    /\ stdin' = [stdin EXCEPT ![w] = << >>]
    /\ UNCHANGED << pc, process, spawned, stdout, result, calls, log_warn, hist,
                    textVars, decoderVars >>

Init ==
    /\ SessionInit
    /\ pc = "idle"
    /\ log_warn \in BOOLEAN
    /\ text = << >>
    /\ clean_text = << >>
    /\ gr = << >>
    /\ grammem = None

Next ==
    \/ \E t \in CallTexts : Stemming(t)
    \/ WriteText
    \/ WriteNewline
    \/ ReadAndDecode
    \/ Terminate
    \/ \E w \in Workers, r \in ResponseLines : WorkerAnswer(w, r)
    \/ \E w \in Workers : WorkerExit(w)

Spec == Init /\ [][Next]_vars

(***************************************************************************)
(* The decoder alone, on every tag string up to MaxTagLen and on every     *)
(* code of the two tables.                                                 *)
(***************************************************************************)
TagChars == { "S", "m", "p", "l", "Z", "=", "," }
\* "S,persn,famn=nom,sg" and two variations of it
SampleTags ==
    { << "S", ",", "p", "e", "r", "s", "n", ",", "f", "a", "m", "n", "=", "n", "o", "m", ",", "s", "g" >>,
      << "S", ",", "p", "e", "r", "s", "n", ",", ",", "=", "n", "o", "m", "=" >>,
      << "=", "V", "=", "i", "p", "f", ",", "x", "x", ",", "s", "g" >> }
TagInputs ==
    SeqsUpTo(TagChars, MaxTagLen)
        \cup SampleTags
        \cup { p[1] : p \in PartOfSpeechTable }
        \cup { << "S", "=" >> \o p[1] : p \in FactTable }

DecodeInit ==
    /\ SessionInit
    /\ pc = "detect_grammems"
    /\ log_warn = FALSE
    /\ text = << >>
    /\ clean_text = << >>
    /\ gr \in TagInputs
    /\ grammem = None

DetectGrammems ==
    /\ pc = "detect_grammems"
    /\ grammem' = detect_grammems(gr)
    /\ pc' = "decoded"
    /\ UNCHANGED << gr, sessionVars, textVars >>

DecodeNext == DetectGrammems

SpecDecode == DecodeInit /\ [][DecodeNext]_vars

(***************************************************************************)
(* The clean-up alone, on every text up to MaxTextLen.                     *)
(***************************************************************************)
CleanInit ==
    /\ SessionInit
    /\ pc = "clean_text"
    /\ log_warn = FALSE
    /\ text \in SeqsUpTo(TextChars, MaxTextLen)
    /\ clean_text = << >>
    /\ gr = << >>
    /\ grammem = None

Clean ==
    /\ pc = "clean_text"
    /\ clean_text' = CleanText(text)
    /\ pc' = "cleaned"
    /\ UNCHANGED << text, sessionVars, decoderVars >>

CleanNext == Clean

SpecClean == CleanInit /\ [][CleanNext]_vars

(***************************************************************************)
(* Vocabulary of the properties.                                           *)
(***************************************************************************)
\* the running (or last) call has read its line
CallOver == hist.readFrom # {}

\* the call has issued both of its writes
Wrote == pc = "read" \/ CallOver

Count(s, c) == Cardinality({ i \in 1..Len(s) : s[i] = c })

\* the maximal runs of non-separator characters of s, first to last
RunStarts(s) ==
    { i \in 1..Len(s) : ~IsSeparator(s[i]) /\ (i = 1 \/ IsSeparator(s[i - 1])) }
RunEnd(s, i) ==
    CHOOSE j \in i..Len(s) :
        /\ \A k \in i..j : ~IsSeparator(s[k])
        /\ j = Len(s) \/ IsSeparator(s[j + 1])
NthStart(s, n) ==
    CHOOSE i \in RunStarts(s) : Cardinality({ j \in RunStarts(s) : j < i }) = n - 1
Segments(s) ==
    [n \in 1..Cardinality(RunStarts(s)) |-> SubSeq(s, NthStart(s, n), RunEnd(s, NthStart(s, n)))]

PartOfSpeechCodes == { p[1] : p \in PartOfSpeechTable }
FactCodes == { p[1] : p \in FactTable }

\* the text between the first and the last character that is not whitespace
Trimmed(t) ==
    LET solid == { i \in 1..Len(t) : t[i] \notin Whitespace } IN
    IF solid = {} THEN << >>
    ELSE SubSeq(t, CHOOSE i \in solid : \A j \in solid : i <= j,
                   CHOOSE i \in solid : \A j \in solid : j <= i)

(***************************************************************************)
(* C1: a call that finds the worker exited (the spawn succeeding) restarts *)
(* it exactly once, owns the new handle, writes to and reads from the new  *)
(* worker only, and returns what the line it read decodes to: never an     *)
(* error value, and Ok whenever that line is well formed or unparsable.    *)
(***************************************************************************)
C1_RestartServesTheCall ==
    (hist.deadAtStart /\ ~hist.spawnFailed) =>
        /\ spawned = hist.spawnedAtStart + 1
        /\ process = spawned
        /\ process # hist.oldProcess
        /\ pc = "aborted" => CallOver
        /\ hist.wroteTo \subseteq {process}
        /\ CallOver =>
            /\ hist.readFrom = {process}
            /\ result.tag # "Err"
            /\ hist.contents \in WellFormedLines \cup UnparsableLines => result.tag = "Ok"

(***************************************************************************)
(* C2: in every call both writes reach a worker that is alive and the call *)
(* reads a response line from it, whenever the worker exits.               *)
(***************************************************************************)
C2_ServedByLiveWorker ==
    /\ (pc \in {"write_newline", "read"} \/ CallOver) => hist.delivered
    /\ CallOver => hist.gotLine

(***************************************************************************)
(* C3: a response line that is empty, not JSON, not an array, or an array  *)
(* of elements without the text/analysis shape gives Ok of the empty list. *)
(***************************************************************************)
C3_MalformedLineGivesEmptyOk ==
    (CallOver /\ hist.contents \in UnparsableLines \cup MisshapenLines) =>
        (result.tag = "Ok" /\ result.val = << >>)

(***************************************************************************)
(* C4: a well-shaped response with a candidate whose tag string has an     *)
(* unknown code makes stemming return Err(PartOfSpeechError) or            *)
(* Err(GrammemError).                                                      *)
(***************************************************************************)
C4_UnknownCodeGivesTypedError ==
    (CallOver /\ hist.contents \in UnknownCodeLines) =>
        (result.tag = "Err" /\ result.val \in {"PartOfSpeechError", "GrammemError"})

(***************************************************************************)
(* C5: a tag string without a non-empty segment, or whose first non-empty  *)
(* segment is no part-of-speech code, decodes to Err(PartOfSpeechError).   *)
(***************************************************************************)
C5_NoPartOfSpeechGivesError ==
    (pc = "decoded"
        /\ (Segments(gr) = << >> \/ Segments(gr)[1] \notin PartOfSpeechCodes)) =>
        (grammem.tag = "Err" /\ grammem.val = "PartOfSpeechError")

(***************************************************************************)
(* C6: a known part-of-speech code followed by segments of which one is no *)
(* fact code decodes to Err(GrammemError).                                 *)
(***************************************************************************)
C6_UnknownFactGivesError ==
    (pc = "decoded"
        /\ Segments(gr) # << >>
        /\ Segments(gr)[1] \in PartOfSpeechCodes
        /\ \E i \in 2..Len(Segments(gr)) : Segments(gr)[i] \notin FactCodes) =>
        (grammem.tag = "Err" /\ grammem.val = "GrammemError")

(***************************************************************************)
(* C7: in a decoded Grammem, facts and facts_raw have the same length,     *)
(* facts[i] is what the fact table gives for facts_raw[i], and facts_raw   *)
(* is the non-empty segments after the first, in order and unmodified.     *)
(***************************************************************************)
C7_FactsMatchFactsRaw ==
    (pc = "decoded" /\ grammem.tag = "Ok") =>
        /\ Len(grammem.val.facts) = Len(grammem.val.facts_raw)
        /\ \A i \in 1..Len(grammem.val.facts_raw) :
               << grammem.val.facts_raw[i], grammem.val.facts[i] >> \in FactTable
        /\ grammem.val.facts_raw = SubSeq(Segments(gr), 2, Len(Segments(gr)))

C7_Witness ==
    /\ pc = "decoded"
    /\ gr = << "S", ",", "p", "e", "r", "s", "n", ",", ",", "=", "n", "o", "m", "=" >>
    /\ grammem.tag = "Ok"
    /\ grammem.val.facts_raw = << <<"p", "e", "r", "s", "n">>, <<"n", "o", "m">> >>
    /\ grammem.val.facts = << Fact("Other", "ProperNoun"), Fact("Case", "Nominative") >>

(***************************************************************************)
(* C8: every part-of-speech code alone decodes to its table value with no  *)
(* facts; "S=<code>" for every fact code decodes to Noun with exactly the  *)
(* one fact the table gives for the code.                                  *)
(***************************************************************************)
C8_DecoderAgreesWithTables ==
    pc = "decoded" =>
        /\ \A p \in PartOfSpeechTable :
               gr = p[1] =>
                   /\ grammem.tag = "Ok"
                   /\ grammem.val.part_of_speech = p[2]
                   /\ grammem.val.facts = << >>
        /\ \A p \in FactTable :
               gr = << "S", "=" >> \o p[1] =>
                   /\ grammem.tag = "Ok"
                   /\ grammem.val.part_of_speech = "Noun"
                   /\ grammem.val.facts = << p[2] >>

C8_Witness ==
    /\ pc = "decoded"
    /\ gr = << "S", "=", "p", "a", "r", "t" >>
    /\ grammem.tag = "Ok"
    /\ grammem.val.facts = << Fact("Case", "Partitive") >>

(***************************************************************************)
(* C9: the cleaned text is the trimmed input without the characters that   *)
(* are neither alphabetic nor a space, the others in their order; it holds *)
(* no newline, tab, digit or punctuation mark.                             *)
(***************************************************************************)
C9_CleanTextIsFilteredTrim ==
    pc = "cleaned" =>
        /\ clean_text = SelectSeq(Trimmed(text), LAMBDA c : c \in Letters \/ c = " ")
        /\ \A i \in 1..Len(clean_text) : clean_text[i] \notin { "\n", "\t", "1", "-" }

C9_Witness ==
    /\ pc = "cleaned"
    /\ text = << "\n", "a", " ", "1" >>
    /\ clean_text = << "a", " " >>

(***************************************************************************)
(* C10: a call that reaches its exchange writes the cleaned text and then  *)
(* exactly one newline before it reads; the line it reads is the worker's  *)
(* answer to the request of this very call; between calls no request and   *)
(* no response is left pending in the pipes of the owned worker.           *)
(***************************************************************************)
C10_OneExchangePerCall ==
    /\ Wrote => (hist.written = clean_text \o << "\n" >> /\ Count(hist.written, "\n") = 1)
    /\ (CallOver /\ hist.gotLine) => hist.lineCall = calls
    /\ pc \in {"write_text", "idle"} => (stdin[process] = << >> /\ stdout[process] = << >>)
    /\ Len(stdout[process]) <= 1

C10_Witness ==
    /\ calls = MaxCalls
    /\ pc = "idle"
    /\ process = 1
    /\ hist.gotLine
    /\ hist.lineCall = calls
    /\ result.tag = "Ok"
    /\ result.val # << >>
=============================================================================
